---- MODULE Spec2Model ----
(***************************************************************************)
(* State-machine model of the MCP client of the Databricks agent           *)
(* (src/databricks agent/src/mcp-client-new.ts, class DatabricksMCPClient).*)
(*                                                                         *)
(* The client is one object with five mutable fields.  Its methods are     *)
(* async functions: each one runs synchronously up to its next `await`,    *)
(* so a method is modelled as a task that moves from one await to the      *)
(* next, one action per resumption.  The MCP server, the HTTP stack and    *)
(* the SDK Client/SSEClientTransport objects are the environment: the      *)
(* outcome of every awaited call is chosen from the outcomes that call can *)
(* have (resolve, reject, status, header, body).                           *)
(***************************************************************************)
EXTENDS Integers, Sequences, FiniteSets, TLC

\* ---------------------------------------------------------------- bounds
\* number of sessions the server may issue in one behaviour
MaxConnects == 2
\* number of task slots (async calls that can be in flight at once)
MaxTasks == 2
\* number of transports the StreamableHTTP server may create, and of session
\* ids the legacy server may issue, in one behaviour
MaxSessions == 2

Tasks == 1..MaxTasks

\* tool names a caller may pass to callTool
ToolNames == {"list_clusters", "nonexistent_tool"}

\* tool catalogs the server may serve on tools/list
Catalogs == {<<"list_clusters">>, <<"list_clusters", "run_databricks_notebook">>}

\* values of error.message of an exception thrown by the SDK
Msgs == {"Request timed out", ""}

\* values of result.content in a tools/call reply; isArray is what
\* Array.isArray(result.content) yields, items the elements of an array
TextItem(txt) == [type |-> "text", text |-> txt]

Content(isArray, items) == [isArray |-> isArray, items |-> items]

Contents ==
    { Content(FALSE, <<>>),
      Content(TRUE, <<>>),
      Content(TRUE, << TextItem(<<"[]">>) >>),
      Content(TRUE, << TextItem(<<"Error: ">>), TextItem(<<"details">>) >>) }

\* values of result.isError in a tools/call reply
IsErrorVals == {"undefined", "true", "false", "truthy", "falsy"}

VARIABLES
    mcp,        \* the fields of the DatabricksMCPClient instance
    objs,       \* the SDK transport/client pairs created so far
    tasks,      \* the async calls in flight, one record per slot
    srvMode,    \* "healthy": every request succeeds; "flaky": any outcome;
                \* "silent": the server accepts requests and never answers
    srvCatalog, \* the catalog the server serves on tools/list
    srvNextSid, \* the next session id the server issues
    lastReq,    \* the most recent request the client put on the wire
    hist,       \* what the caller has seen of the calls that have settled
    server,     \* the MCP server process: its session map and the request
                \* it handled last
    http,       \* the StreamableHTTP client of datbricks-agent/src/client.ts
    simple,     \* the SimpleMCPClient of simple-mcp-client.ts
    agent,      \* the DatabricksAgent: its invoke() in flight
    config      \* the server's MODEL_CONFIG and the tool call that reads it

\* the variables of the components other than the SSE client
extVars == <<server, http, simple, agent, config>>

\* the variables of the SSE client and of the server as it sees it
clientVars == <<mcp, objs, tasks, srvMode, srvCatalog, srvNextSid, lastReq, hist>>

vars == <<clientVars, extVars>>

\* null is 0 for the session id and for the two object references
Null == 0

\* --------------------------------------------------------- client fields
\* the field initialisers of the class
NewClient ==
    [ client         |-> Null,
      transport      |-> Null,
      sessionId      |-> Null,
      availableTools |-> <<>>,
      isConnected    |-> FALSE ]

\* connect(), catch block: the flag is cleared and the error is rethrown
ConnectCatch(c) == [c EXCEPT !.isConnected = FALSE]

\* initializeSession(): this.sessionId = response.headers.get(...)
SetSessionId(c, hdr) == [c EXCEPT !.sessionId = hdr]

\* connect(): this.transport = new SSEClientTransport(url);
\*            this.client = new Client(...)
AttachObjects(c, o) == [c EXCEPT !.transport = o, !.client = o]

\* loadAvailableTools() as connect() reaches it.  The guard is evaluated on
\* the fields; past the guard the method awaits client.listTools().
LoadToolsGuardFails(c) == c.client = Null \/ ~c.isConnected

\* connect() after `await this.client.connect(this.transport)` resolved:
\*   - the first try block sets _isConnected = true;
\*   - the second try block evaluates the array literal
\*     [connectPromise, timeoutPromise]; neither identifier is declared
\*     anywhere in the module, so the evaluation throws a ReferenceError
\*     inside the try, the catch block runs and sets _isConnected = false;
\*   - loadAvailableTools() then finds the flag false, empties the catalog
\*     and returns without a request.
AfterTransportConnected(c) ==
    LET c1 == [c EXCEPT !.isConnected = TRUE]
        c2 == [c1 EXCEPT !.isConnected = FALSE]
    IN  IF LoadToolsGuardFails(c2)
        THEN [c2 EXCEPT !.availableTools = <<>>]
        ELSE c2

\* ClearState without `this.sessionId = null`
ClearState_KeepsSession(c) ==
    [c EXCEPT !.isConnected = FALSE, !.availableTools = <<>>]

\* disconnect(): the three assignments that end the try block
ClearState(c) ==
    [c EXCEPT !.isConnected = FALSE, !.sessionId = Null, !.availableTools = <<>>]

\* disconnect(), outer catch block: every field is reset, then rethrow
ResetAll(c) ==
    [c EXCEPT !.client = Null, !.transport = Null, !.isConnected = FALSE,
              !.sessionId = Null, !.availableTools = <<>>]

\* ------------------------------------------------------- SDK connections
\* one record per `new SSEClientTransport(url)` / `new Client(...)` pair:
\* sid is the mcp-session-id parameter of the transport URL
NewObj(sid) == [sid |-> sid, st |-> "new"]

\* "failed": client.connect() rejected; "dropped": an open connection was
\* lost; "closed": close() resolved
ObjStates == {"new", "open", "failed", "dropped", "closed"}

\* the client holds an SDK client whose connection is open
HasLiveClient(c, os) == c.client # Null /\ os[c.client].st = "open"

\* the client holds an SDK client whose open connection was lost
HasLostClient(c, os) == c.client # Null /\ os[c.client].st = "dropped"

\* the client has an active session: it holds a session id and an SDK
\* client whose connect() succeeded and that has not been closed
ActiveSession(c, os) ==
    /\ c.sessionId # Null
    /\ c.client # Null
    /\ os[c.client].st \in {"open", "dropped"}

\* ----------------------------------------------------------------- wire
NoReq == [method |-> "none", sid |-> Null, active |-> FALSE, stale |-> FALSE]

\* a request as it leaves the client; active records whether the client
\* had an active session when it was sent, stale whether it carries the id
\* of a session that an earlier disconnect() closed
Req(m, sid) ==
    [ method |-> m, sid |-> sid, active |-> ActiveSession(mcp, objs),
      stale |-> sid \in hist.closed ]

\* ----------------------------------------------------- tool call results
\* callTool(), try block: the reply normalised into an MCPToolResult
NormalizeContent(content) == IF content.isArray THEN content.items ELSE <<>>

NormalizeIsError(isError) ==
    CASE isError = "true"      -> "true"
      [] isError = "false"     -> "false"
      [] isError = "undefined" -> "undefined"
      [] isError = "truthy"    -> "true"
      [] isError = "falsy"     -> "false"

NormalizeResult(result) ==
    [ content |-> NormalizeContent(result.content),
      isError |-> NormalizeIsError(result.isError) ]

\* the template string `Error calling tool ${name}: ${message}`
ErrorText(name, msg) == <<"Error calling tool ", name, ": ", msg>>

\* ErrorResult without `isError: true`
ErrorResult_NoFlag(name, msg) ==
    [ content |-> << TextItem(ErrorText(name, msg)) >>,
      isError |-> "undefined" ]

\* callTool(), catch block
ErrorResult(name, msg) ==
    [ content |-> << TextItem(ErrorText(name, msg)) >>,
      isError |-> "true" ]

NoResult == [content |-> <<>>, isError |-> "undefined"]

\* a tools/call reply as the SDK hands it to callTool()
Reply(content, isError) == [content |-> content, isError |-> isError]

NoReply == Reply(Content(FALSE, <<>>), "undefined")

\* -------------------------------------------------------------- history
\* recon:  the call that settled last was a reconnect() that returned,
\*         "lost" if it started with a lost connection, else "plain"; or
\*         it was a disconnect() that returned, "disc"
\* got:    whether getAvailableTools() was called since the last connect(),
\*         what it returned, and whether the server's catalog changed since
\* closed: the session ids that a finished disconnect() has closed
\* order:  the slots of the callTool() requests in flight, oldest first
\* wake:   the slots of the callTool() requests that were in flight when
\*         another callTool() failed
NoHist ==
    [ recon  |-> "none",
      got    |-> [has |-> FALSE, tools |-> <<>>, chg |-> FALSE],
      closed |-> {},
      order  |-> <<>>,
      wake   |-> {} ]

\* a connect() starts: the next getAvailableTools() is a first one
HistConnect(h) == [h EXCEPT !.got = NoHist.got]

\* a disconnect() has finished: the session id it cleared and the session
\* of the connection it released are closed
HistClosed(h, sid, osid) == [h EXCEPT !.closed = (@ \cup {sid, osid}) \ {Null}]

\* the caller takes the result of the call tk
HistReturn(h, tk) ==
    [h EXCEPT !.recon = CASE tk.op = "reconnect" /\ tk.out = "returned" ->
                               IF tk.preLost THEN "lost" ELSE "plain"
                          [] tk.op = "disconnect" /\ tk.out = "returned" -> "disc"
                          [] OTHER -> "none"]

\* ---------------------------------------------------------------- tasks
Idle ==
    [ op |-> "idle", pc |-> "idle", name |-> "none", out |-> "none",
      val |-> NoResult, ok |-> FALSE, init |-> "none", conn |-> "none",
      shut |-> "none", tcl |-> "none", ccl |-> "none", reply |-> "none",
      raw |-> NoReply, cat |-> <<>>, obj |-> Null,
      pre |-> NewClient, preLive |-> FALSE, preLost |-> FALSE,
      ndisc |-> 0, nconn |-> 0, delayed |-> FALSE, hdr |-> Null,
      after |-> "none", tools |-> <<>>, rid |-> 0, overtook |-> FALSE,
      sawFail |-> FALSE, srv |-> "none", st |-> "none",
      prev |-> NoHist.got, timer |-> "none", ans |-> 0, ovl |-> FALSE ]

\* a call that starts now
Call(op, pc, name) ==
    [ Idle EXCEPT !.op = op, !.pc = pc, !.name = name, !.pre = mcp,
                  !.preLive = HasLiveClient(mcp, objs),
                  !.preLost = HasLostClient(mcp, objs),
                  !.after = hist.recon,
                  !.ovl = \E u \in Tasks : tasks[u].pc \notin {"idle", "done"} ]

NoneInFlight == \A u \in Tasks : tasks[u].op = "idle"

\* a call is started on the lowest free slot; seq says whether the caller
\* awaits each call before making the next one
CanStart(t, seq) ==
    /\ tasks[t].op = "idle"
    /\ \A u \in Tasks : u < t => tasks[u].op # "idle"
    /\ seq => NoneInFlight

Returned(tk) == [tk EXCEPT !.pc = "done", !.out = "returned"]
Raised(tk)   == [tk EXCEPT !.pc = "done", !.out = "raised"]

\* ------------------------------------------------- the server: its state
\* values of the mcp-session-id header of a request: missing, the name of a
\* property every object inherits ("constructor"), a session id, or an id
\* that no server has issued
Missing == 0
ProtoKey == 0 - 1
SessionIds == 1..MaxSessions
HdrVals == {Missing, ProtoKey} \cup SessionIds \cup {MaxSessions + 1}

\* tmap:    the `transports` object of the StreamableHTTP server, session id
\*          to transport, Null where it has no own property
\* made:    the transports created so far
\* issued:  the session ids under which a transport was stored
\* ended:   the session ids whose transport has closed
\* deleted: the session ids for which a DELETE was handled
\* legacy, legacyShut: the session ids the legacy server has issued, and
\*          those a shutdown request has named
\* last:    the request handled last and its response
ServerInit ==
    [ tmap |-> [sid \in SessionIds |-> Null],
      made |-> 0, issued |-> {}, ended |-> {}, deleted |-> {},
      legacy |-> 0, legacyShut |-> {},
      last |-> [ srv |-> "none", verb |-> "none", init |-> FALSE,
                 hdr |-> Missing, valid |-> FALSE, wasDeleted |-> FALSE,
                 status |-> 0, dispatched |-> FALSE ] ]

\* -------------------------- the StreamableHTTP client: its state
\* the call in flight on the StreamableHTTP client; pre is the connected
\* flag when the call was made
HttpIdle ==
    [ op |-> "idle", pc |-> "idle", out |-> "none", name |-> "none",
      reply |-> "none", raw |-> NoReply, val |-> NoResult, pre |-> FALSE,
      closed |-> "none" ]

\* connected, transport: the fields; sdk: the state of the SDK client that
\* the constructor creates; call: the call in flight or settled last;
\* disconnected: the last call that returned was a disconnect()
HttpInit ==
    [ connected |-> FALSE, transport |-> Null, made |-> 0, sdk |-> "new",
      call |-> HttpIdle, disconnected |-> FALSE ]

\* -------------------------- the DatabricksAgent: its state
\* a thrown value: an Error with a message, or a value that is not an
\* Error; msg is the text, word by word
Thrown(isError, msg) == [ isError |-> isError, msg |-> msg ]

NoThrown == Thrown(FALSE, <<>>)

\* pc: the await invoke() is at; graphCalls, reconnects: the calls of
\* graph.invoke() and of mcpClient.reconnect() this invoke() has made;
\* err: what the first graph.invoke() threw; err2: what the reconnect or
\* the retry threw; val: the value invoke() returns, the content of the
\* last message or one of the two error strings; last: the kind of value
\* the previous invoke() gave
AgentInit ==
    [ pc |-> "idle", message |-> "none", graphCalls |-> 0, reconnects |-> 0,
      reconnected |-> FALSE, err |-> NoThrown, err2 |-> NoThrown,
      out |-> "none", val |-> [ kind |-> "none", text |-> <<>> ],
      last |-> "none" ]

\* -------------------------- the server's MODEL_CONFIG: its state
\* a member of an object that may be absent; v is a text, piece by piece
Absent == [ has |-> FALSE, v |-> <<>> ]
Member(v) == [ has |-> TRUE, v |-> v ]

ModelParams(id, name, model) ==
    [ experiment_id |-> id, experiment_name |-> name, model_name |-> model ]

ModelTypes == {"shingrix-po", "shingrix-ppo", "digital-twin"}

\* const MODEL_CONFIG: the members the handlers read or write
MODEL_CONFIG ==
    [ mt \in ModelTypes |->
        CASE mt = "shingrix-po" ->
               ModelParams("123", <<"/Shared/", "ShingrixPO">>, <<"shingrix_po_model">>)
          [] mt = "shingrix-ppo" ->
               ModelParams("124", <<"/Shared/", "ShingrixPPO">>, <<"shingrix_ppo_model">>)
          [] mt = "digital-twin" ->
               ModelParams("125", <<"/Shared/", "DigitalTwin">>, <<"digital_twin_model">>) ]

NoParams == ModelParams("none", <<>>, <<>>)

\* the tool call in flight: params is what is handed to the notebook run or
\* reported as default_params
ConfigIdle ==
    [ op |-> "idle", pc |-> "idle", out |-> "none", model_type |-> "none",
      additional_params |-> [ experiment_name |-> Absent, model_name |-> Absent ],
      supported |-> FALSE, params |-> NoParams ]

\* cfg: the MODEL_CONFIG object of the running server
ConfigInit == [ cfg |-> MODEL_CONFIG, call |-> ConfigIdle ]

\* -------------------------- the SimpleMCPClient: its state
\* the call in flight on the SimpleMCPClient; pre is isConnected when the
\* call was made
SimpleIdle ==
    [ op |-> "idle", pc |-> "idle", out |-> "none", name |-> "none",
      pre |-> FALSE ]

\* client, transport: the fields, Null or the number of the object held;
\* made: the transport/client pairs created so far; sdk: the state of the
\* SDK client created last; call: the call in flight or settled last;
\* live: a connect() has returned and no disconnect() has returned since
SimpleInit ==
    [ client |-> Null, transport |-> Null, made |-> 0, sdk |-> "none",
      call |-> SimpleIdle, live |-> FALSE ]

ExtInit ==
    /\ server = ServerInit
    /\ http = HttpInit
    /\ simple = SimpleInit
    /\ agent = AgentInit
    /\ config = ConfigInit

Init ==
    /\ ExtInit
    /\ mcp = NewClient
    /\ objs = <<>>
    /\ tasks = [t \in Tasks |-> Idle]
    /\ srvMode = "healthy"
    /\ srvCatalog = <<"list_clusters">>
    /\ srvNextSid = 1
    /\ lastReq = NoReq
    /\ hist = NoHist

\* ---------------------------------------------------- environment choices
ServerModes == {"healthy", "flaky", "silent"}

\* outcomes of the initialize POST: fetch rejects, non-2xx status, 2xx
\* without the mcp-session-id header, 2xx with the header
FetchOutcomes ==
    CASE srvMode = "healthy" -> {"hdr"}
      [] srvMode = "flaky"   -> {"neterr", "nonok", "nohdr", "hdr"}
      [] srvMode = "silent"  -> {}

\* outcomes of response.json() and of the data.error test
BodyOutcomes ==
    CASE srvMode = "healthy" -> {"ok"}
      [] srvMode = "flaky"   -> {"badjson", "errbody", "ok"}
      [] srvMode = "silent"  -> {}

\* outcomes of the shutdown POST
ShutdownOutcomes ==
    CASE srvMode = "healthy" -> {"ok"}
      [] srvMode = "flaky"   -> {"neterr", "nonok", "ok"}
      [] srvMode = "silent"  -> {}

\* outcomes of client.connect(transport)
TransportOutcomes ==
    CASE srvMode = "healthy" -> {"ok"}
      [] srvMode = "flaky"   -> {"ok", "fail"}
      [] srvMode = "silent"  -> {}

\* outcomes of transport.close() and client.close()
CloseOutcomes == {"ok", "throw"}

\* outcomes of client.listTools() on the SDK client o; the SDK gives up a
\* request that gets no answer
ListOutcomes(o) ==
    IF objs[o].st # "open" \/ srvMode = "silent" THEN {"throw"}
    ELSE IF srvMode = "healthy" THEN {"ok"} ELSE {"ok", "throw"}

\* the results client.callTool() on the SDK client o may resolve with: none
\* when its connection is not open; a healthy server answers a tool of its
\* catalog with a success result and any other name with a JSON-RPC error
CallReplies(o, name) ==
    IF objs[o].st # "open" \/ srvMode = "silent" THEN {}
    ELSE IF srvMode = "healthy"
         THEN IF \E i \in 1..Len(srvCatalog) : srvCatalog[i] = name
              THEN {Reply(c, e) : c \in {x \in Contents : x.isArray},
                                  e \in {"undefined", "false"}}
              ELSE {}
         ELSE {Reply(c, e) : c \in Contents, e \in IsErrorVals}

\* whether client.callTool() on the SDK client o may reject
CallMayThrow(o, name) ==
    \/ objs[o].st # "open"
    \/ srvMode # "healthy"
    \/ ~ \E i \in 1..Len(srvCatalog) : srvCatalog[i] = name

\* a request made through the SDK client o reaches the wire only if its
\* connection is open
SdkReq(m, o) == IF objs[o].st = "open" THEN Req(m, objs[o].sid) ELSE lastReq

SetObj(o, st) == [objs EXCEPT ![o].st = st]

\* --------------------------------------------------------------- connect
\* connect() up to the fetch of initializeSession()
BeginConnect(tk) == [tk EXCEPT !.pc = "c_init", !.nconn = @ + 1]

\* ConnectRaised: reconnect() tries again when its connect() fails
ConnectRaised_Retry(tk) ==
    IF tk.op = "reconnect" THEN [tk EXCEPT !.pc = "r_delay"] ELSE Raised(tk)

\* connect() leaves through its catch block, which rethrows; the exception
\* leaves reconnect() too
ConnectRaised(tk) == Raised(tk)

StartConnect(t, seq) ==
    /\ CanStart(t, seq)
    /\ srvNextSid <= MaxConnects
    /\ tasks' = [tasks EXCEPT ![t] = BeginConnect(Call("connect", "start", "none"))]
    /\ lastReq' = Req("initialize", Null)
    /\ hist' = HistConnect(hist)
    /\ UNCHANGED <<mcp, objs, srvMode, srvCatalog, srvNextSid, extVars>>

\* initializeSession(): the fetch settles
ConnectInitResponse(t) ==
    /\ tasks[t].pc = "c_init"
    /\ \E r \in FetchOutcomes :
         LET tk == [tasks[t] EXCEPT !.init = r] IN
         CASE r \in {"neterr", "nonok"} ->
                /\ mcp' = ConnectCatch(mcp)
                /\ tasks' = [tasks EXCEPT ![t] = ConnectRaised(tk)]
                /\ UNCHANGED srvNextSid
           [] r = "nohdr" ->
                /\ mcp' = ConnectCatch(SetSessionId(mcp, Null))
                /\ tasks' = [tasks EXCEPT ![t] = ConnectRaised(tk)]
                /\ UNCHANGED srvNextSid
           [] r = "hdr" ->
                /\ mcp' = SetSessionId(mcp, srvNextSid)
                /\ srvNextSid' = srvNextSid + 1
                /\ tasks' = [tasks EXCEPT ![t] =
                               [tk EXCEPT !.pc = "c_body", !.hdr = srvNextSid]]
    /\ UNCHANGED <<objs, srvMode, srvCatalog, lastReq, hist, extVars>>

\* initializeSession(): response.json() settles; then connect() up to
\* `await this.client.connect(this.transport)`
ConnectInitBody(t) ==
    /\ tasks[t].pc = "c_body"
    /\ \E b \in BodyOutcomes :
         LET tk == [tasks[t] EXCEPT !.init = b] IN
         IF b # "ok" \/ mcp.sessionId = Null
         THEN /\ mcp' = ConnectCatch(mcp)
              /\ tasks' = [tasks EXCEPT ![t] = ConnectRaised(tk)]
              /\ UNCHANGED <<objs, lastReq>>
         ELSE LET o == Len(objs) + 1 IN
              /\ objs' = Append(objs, NewObj(mcp.sessionId))
              /\ mcp' = AttachObjects(mcp, o)
              /\ tasks' = [tasks EXCEPT ![t] =
                             [tk EXCEPT !.pc = "c_connect", !.obj = o,
                                        !.timer = "armed"]]
              /\ lastReq' = Req("sse", mcp.sessionId)
    /\ UNCHANGED <<srvMode, srvCatalog, srvNextSid, hist, extVars>>

\* connect(): finally { clearTimeout(timeout) }
ClearTimeout(timer) == IF timer = "armed" THEN "cleared" ELSE timer

\* connect(): the 30 second timer set before client.connect(transport)
\* fires while the call awaits it.  The callback is controller.abort(); the
\* controller's signal was handed to no request, so nothing is aborted and
\* the call goes on waiting.
ConnectTimeout(t) ==
    /\ tasks[t].pc = "c_connect"
    /\ tasks[t].timer = "armed"
    /\ tasks' = [tasks EXCEPT ![t].timer = "fired"]
    /\ UNCHANGED <<mcp, objs, srvMode, srvCatalog, srvNextSid, lastReq,
                 hist, extVars>>

\* connect(): client.connect(transport) settles
ConnectTransport(t) ==
    /\ tasks[t].pc = "c_connect"
    /\ \E r \in TransportOutcomes :
         LET tk == [tasks[t] EXCEPT !.conn = r, !.timer = ClearTimeout(@)] IN
         IF r = "ok"
         THEN LET c == AfterTransportConnected(mcp) IN
              /\ objs' = SetObj(tk.obj, "open")
              /\ mcp' = c
              /\ IF LoadToolsGuardFails(c)
                 THEN /\ tasks' = [tasks EXCEPT ![t] = Returned(tk)]
                      /\ UNCHANGED lastReq
                 ELSE /\ tasks' = [tasks EXCEPT ![t] =
                                     [tk EXCEPT !.pc = "c_tools", !.obj = c.client]]
                      /\ lastReq' = Req("tools/list", objs[c.client].sid)
         ELSE /\ objs' = SetObj(tk.obj, "failed")
              /\ mcp' = ConnectCatch(mcp)
              /\ tasks' = [tasks EXCEPT ![t] = ConnectRaised(tk)]
              /\ UNCHANGED lastReq
    /\ UNCHANGED <<srvMode, srvCatalog, srvNextSid, hist, extVars>>

\* ------------------------------------------------------------ disconnect
\* Escapes without the try/catch around `await this.transport.close()`
Escapes_Transport(step) == step = "transport"

\* whether an exception of one of the three awaited steps of disconnect()
\* ("shutdown", "transport", "client") leaves its inner try/catch
Escapes(step) == FALSE

\* ReleaseClient without `this.client = null`
ReleaseClient_Keeps(c) == c

\* disconnect(): this.client = null, after client.close() settled
ReleaseClient(c) == [c EXCEPT !.client = Null]

\* disconnect(), the end of the try block
DiscAfterClient(c, tk) ==
    [ c  |-> ClearState(c),
      tk |-> IF tk.op = "reconnect" THEN [tk EXCEPT !.pc = "r_delay"]
             ELSE Returned(tk) ]

\* disconnect(): if (this.client) { await this.client.close() ... }
DiscAfterTransport(c, tk) ==
    IF c.client # Null
    THEN [c |-> c, tk |-> [tk EXCEPT !.pc = "d_cclose", !.obj = c.client]]
    ELSE DiscAfterClient(c, tk)

\* DiscAfterShutdown without the close of the transport
DiscAfterShutdown_SkipsClose(c, tk) == DiscAfterTransport(c, tk)

\* disconnect(): if (this.transport) { await this.transport.close() ... }
DiscAfterShutdown(c, tk) ==
    IF c.transport # Null
    THEN [c |-> c, tk |-> [tk EXCEPT !.pc = "d_tclose", !.obj = c.transport]]
    ELSE DiscAfterTransport(c, tk)

\* disconnect(), outer catch block
DiscOuterCatch(c, tk) == [c |-> ResetAll(c), tk |-> Raised(tk)]

\* the history after a step of disconnect() that took the call from tk to
\* n.tk: once disconnect() has finished, the session id it cleared and the
\* session of the connection it released last are closed
DiscHist(h, c, tk, n) ==
    IF n.tk.pc \in {"done", "r_delay"}
    THEN HistClosed(h, c.sessionId,
                    IF tk.obj = Null THEN Null ELSE objs[tk.obj].sid)
    ELSE h

\* HoldsSession: the shutdown request is sent whatever the session id is
HoldsSession_Always(c) == TRUE

\* disconnect(): if (this.sessionId) { ... shutdown request ... }
HoldsSession(c) == c.sessionId # Null

\* disconnect() up to its first await
BeginDisconnect(t, call) ==
    LET tk == [call EXCEPT !.ndisc = @ + 1] IN
    IF HoldsSession(mcp)
    THEN /\ tasks' = [tasks EXCEPT ![t] = [tk EXCEPT !.pc = "d_shutdown"]]
         /\ lastReq' = Req("shutdown", mcp.sessionId)
         /\ UNCHANGED <<mcp, hist>>
    ELSE LET n == DiscAfterShutdown(mcp, tk) IN
         /\ tasks' = [tasks EXCEPT ![t] = n.tk]
         /\ mcp' = n.c
         /\ hist' = DiscHist(hist, mcp, tk, n)
         /\ UNCHANGED lastReq

StartDisconnect(t, seq) ==
    /\ CanStart(t, seq)
    /\ BeginDisconnect(t, Call("disconnect", "start", "none"))
    /\ UNCHANGED <<objs, srvMode, srvCatalog, srvNextSid, extVars>>

\* disconnect(): the shutdown fetch settles
DisconnectShutdown(t) ==
    /\ tasks[t].pc = "d_shutdown"
    /\ \E r \in ShutdownOutcomes :
         LET tk == [tasks[t] EXCEPT !.shut = r]
             n  == IF r = "neterr" /\ Escapes("shutdown")
                   THEN DiscOuterCatch(mcp, tk)
                   ELSE DiscAfterShutdown(mcp, tk)
         IN  /\ tasks' = [tasks EXCEPT ![t] = n.tk]
             /\ mcp' = n.c
             /\ hist' = DiscHist(hist, mcp, tasks[t], n)
    /\ UNCHANGED <<objs, srvMode, srvCatalog, srvNextSid, lastReq, extVars>>

\* disconnect(): transport.close() settles
DisconnectTransportClose(t) ==
    /\ tasks[t].pc = "d_tclose"
    /\ \E r \in CloseOutcomes :
         LET tk == [tasks[t] EXCEPT !.tcl = r]
             n  == IF r = "throw" /\ Escapes("transport")
                   THEN DiscOuterCatch(mcp, tk)
                   ELSE DiscAfterTransport([mcp EXCEPT !.transport = Null], tk)
         IN  /\ tasks' = [tasks EXCEPT ![t] = n.tk]
             /\ mcp' = n.c
             /\ hist' = DiscHist(hist, mcp, tasks[t], n)
             /\ objs' = IF r = "ok" THEN SetObj(tasks[t].obj, "closed") ELSE objs
    /\ UNCHANGED <<srvMode, srvCatalog, srvNextSid, lastReq, extVars>>

\* disconnect(): client.close() settles
DisconnectClientClose(t) ==
    /\ tasks[t].pc = "d_cclose"
    /\ \E r \in CloseOutcomes :
         LET tk == [tasks[t] EXCEPT !.ccl = r]
             n  == IF r = "throw" /\ Escapes("client")
                   THEN DiscOuterCatch(mcp, tk)
                   ELSE DiscAfterClient(ReleaseClient(mcp), tk)
         IN  /\ tasks' = [tasks EXCEPT ![t] = n.tk]
             /\ mcp' = n.c
             /\ hist' = DiscHist(hist, mcp, tasks[t], n)
             /\ objs' = IF r = "ok" THEN SetObj(tasks[t].obj, "closed") ELSE objs
    /\ UNCHANGED <<srvMode, srvCatalog, srvNextSid, lastReq, extVars>>

\* ------------------------------------------------------------- reconnect
\* reconnect(): await this.disconnect()
StartReconnect(t, seq) ==
    /\ CanStart(t, seq)
    /\ srvNextSid <= MaxConnects
    /\ BeginDisconnect(t, Call("reconnect", "start", "none"))
    /\ UNCHANGED <<objs, srvMode, srvCatalog, srvNextSid, extVars>>

\* reconnect(): the one second delay elapses, then await this.connect()
ReconnectDelay(t) ==
    /\ tasks[t].pc = "r_delay"
    /\ tasks' = [tasks EXCEPT ![t] = BeginConnect([tasks[t] EXCEPT !.delayed = TRUE])]
    /\ lastReq' = Req("initialize", Null)
    /\ hist' = HistConnect(hist)
    /\ UNCHANGED <<mcp, objs, srvMode, srvCatalog, srvNextSid, extVars>>

\* -------------------------------------------------------------- callTool
\* CallToolGuardFails with a guard that also tests the connected flag
CallToolGuardFails_Flag(c) == c.client = Null \/ ~c.isConnected

\* callTool(): if (!this.client) throw new Error('MCP client not connected')
CallToolGuardFails(c) == c.client = Null

\* the request ids of the tools/call requests in flight
PendingIds == {tasks[u].rid : u \in {v \in Tasks : tasks[v].pc = "t_call"}}

\* the id the SDK client gives to the next request: one that no request in
\* flight has
FreshId ==
    CHOOSE i \in 1..MaxTasks :
        i \notin PendingIds /\ \A j \in 1..(i - 1) : j \in PendingIds

\* Waiter: answers are handed to the callers in the order of their calls
Waiter_Oldest(id) == Head(hist.order)

\* the call that awaits the answer to the request with this id: the SDK
\* client resolves the promise it registered under the id of the answer
Waiter(id) == CHOOSE w \in Tasks : tasks[w].pc = "t_call" /\ tasks[w].rid = id

\* CallToolCatch with a catch block that drops the session
CallToolCatch_DropsSession(c) == [c EXCEPT !.sessionId = Null]

\* callTool(), catch block: no field of the client is assigned
CallToolCatch(c) == c

\* the history after the call on slot t got its answer
HistAnswered(h, t, failed) ==
    [h EXCEPT !.order = SelectSeq(@, LAMBDA x : x # t),
              !.wake  = IF failed
                        THEN (@ \cup {u \in Tasks : tasks[u].pc = "t_call"}) \ {t}
                        ELSE @ \ {t}]

\* callTool(): the guard, then `await this.client.callTool(...)`
StartCallTool(t, seq) ==
    /\ CanStart(t, seq)
    /\ \E name \in ToolNames :
         LET tk == Call("callTool", "t_call", name) IN
         IF CallToolGuardFails(mcp)
         THEN /\ tasks' = [tasks EXCEPT ![t] = Raised(tk)]
              /\ UNCHANGED <<lastReq, hist>>
         ELSE /\ tasks' = [tasks EXCEPT ![t] =
                             [tk EXCEPT !.obj = mcp.client, !.rid = FreshId]]
              /\ lastReq' = SdkReq("tools/call", mcp.client)
              /\ hist' = [hist EXCEPT !.order = Append(@, t)]
    /\ UNCHANGED <<mcp, objs, srvMode, srvCatalog, srvNextSid, extVars>>

\* callTool(): the server answers one of the requests in flight, or the SDK
\* gives it up; the SDK call of the caller that awaits this request
\* resolves with the reply or rejects
CallToolResponse(t) ==
    /\ tasks[t].pc = "t_call"
    /\ \E u \in Tasks :
         /\ tasks[u].pc = "t_call"
         /\ Waiter(tasks[u].rid) = t
         /\ LET rq == tasks[u]
                tk == [tasks[t] EXCEPT !.srv = srvMode, !.st = objs[rq.obj].st,
                                       !.ans = rq.rid,
                                       !.overtook = Head(hist.order) # t,
                                       !.sawFail = t \in hist.wake]
            IN
            \/ /\ \E rp \in CallReplies(rq.obj, rq.name) :
                     tasks' = [tasks EXCEPT ![t] =
                                 Returned([tk EXCEPT !.reply = "result", !.raw = rp,
                                                     !.val = NormalizeResult(rp)])]
               /\ hist' = HistAnswered(hist, t, FALSE)
               /\ UNCHANGED mcp
            \/ /\ CallMayThrow(rq.obj, rq.name)
               /\ \E msg \in Msgs :
                     tasks' = [tasks EXCEPT ![t] =
                                 Returned([tk EXCEPT !.reply = "threw",
                                                     !.val = ErrorResult(tk.name, msg)])]
               /\ hist' = HistAnswered(hist, t, TRUE)
               /\ mcp' = CallToolCatch(mcp)
    /\ UNCHANGED <<objs, srvMode, srvCatalog, srvNextSid, lastReq, extVars>>

\* ------------------------------------------- checkConnection, healthCheck
\* checkConnection(): the guard, then `await this.client.listTools()`
StartCheckConnection(t, seq) ==
    /\ CanStart(t, seq)
    /\ LET tk == Call("checkConnection", "k_list", "none") IN
       IF mcp.client = Null
       THEN /\ tasks' = [tasks EXCEPT ![t] = Returned(tk)]
            /\ UNCHANGED lastReq
       ELSE /\ tasks' = [tasks EXCEPT ![t] = [tk EXCEPT !.obj = mcp.client]]
            /\ lastReq' = SdkReq("tools/list", mcp.client)
    /\ UNCHANGED <<mcp, objs, srvMode, srvCatalog, srvNextSid, hist, extVars>>

\* healthCheck(): the guard, then `await this.client.listTools()`
StartHealthCheck(t, seq) ==
    /\ CanStart(t, seq)
    /\ LET tk == Call("healthCheck", "h_list", "none") IN
       IF mcp.client = Null
       THEN /\ tasks' = [tasks EXCEPT ![t] = Returned(tk)]
            /\ UNCHANGED lastReq
       ELSE /\ tasks' = [tasks EXCEPT ![t] = [tk EXCEPT !.obj = mcp.client]]
            /\ lastReq' = SdkReq("tools/list", mcp.client)
    /\ UNCHANGED <<mcp, objs, srvMode, srvCatalog, srvNextSid, hist, extVars>>

\* loadAvailableTools() past its guard: the catalog is stored, or emptied
\* when listTools() rejects; the method never throws
LoadAvailableTools(c, r, catalog) ==
    [c EXCEPT !.availableTools = IF r = "ok" THEN catalog ELSE <<>>]

\* checkConnection() after listTools() settled
CheckConnectionResult(c, r) == [c EXCEPT !.isConnected = (r = "ok")]

\* Healthy: healthCheck() answers true whatever listTools() did
Healthy_Always(r) == TRUE

\* healthCheck() after listTools() settled: true from the try block, false
\* from the catch block
Healthy(r) == r = "ok"

\* client.listTools() settles, in loadAvailableTools() ("c_tools"),
\* checkConnection() ("k_list") or healthCheck() ("h_list")
ListToolsResponse(t) ==
    /\ tasks[t].pc \in {"c_tools", "k_list", "h_list"}
    /\ \E r \in ListOutcomes(tasks[t].obj) :
         LET tk == [tasks[t] EXCEPT !.reply = r,
                                    !.ok = IF tasks[t].pc = "h_list"
                                           THEN Healthy(r) ELSE r = "ok",
                                    !.cat = IF r = "ok" THEN srvCatalog ELSE <<>>] IN
         /\ tasks' = [tasks EXCEPT ![t] = Returned(tk)]
         /\ mcp' = CASE tk.pc = "c_tools" -> LoadAvailableTools(mcp, r, srvCatalog)
                     [] tk.pc = "k_list"  -> CheckConnectionResult(mcp, r)
                     [] tk.pc = "h_list"  -> mcp
    /\ UNCHANGED <<objs, srvMode, srvCatalog, srvNextSid, lastReq, hist,
                 extVars>>

\* ----------------------------------------------------- getAvailableTools
\* CachedTools: the list is fetched from the server on every call
CachedTools_Refetch(c) == srvCatalog

\* getAvailableTools(): return this.availableTools
CachedTools(c) == c.availableTools

\* getAvailableTools() is synchronous: it starts and settles in one step
GetAvailableTools(t, seq) ==
    /\ CanStart(t, seq)
    /\ LET tk == Call("getAvailableTools", "start", "none") IN
       /\ tasks' = [tasks EXCEPT ![t] =
                      Returned([tk EXCEPT !.tools = CachedTools(mcp),
                                          !.prev = hist.got])]
       /\ hist' = [hist EXCEPT !.got = [has |-> TRUE, tools |-> CachedTools(mcp),
                                        chg |-> FALSE]]
    /\ UNCHANGED <<mcp, objs, srvMode, srvCatalog, srvNextSid, lastReq,
                 extVars>>

\* the caller takes the result of a settled call
Return(t) ==
    /\ tasks[t].pc = "done"
    /\ tasks' = [tasks EXCEPT ![t] = Idle]
    /\ hist' = HistReturn(hist, tasks[t])
    /\ UNCHANGED <<mcp, objs, srvMode, srvCatalog, srvNextSid, lastReq,
                 extVars>>

\* ----------------------------------------------------------- environment
\* the server's behaviour changes to another one of modes
ServerModeChange(modes) ==
    /\ srvMode' \in modes \ {srvMode}
    /\ UNCHANGED <<mcp, objs, tasks, srvCatalog, srvNextSid, lastReq, hist,
                 extVars>>

\* the server's tool catalog changes
ServerCatalogChange ==
    /\ srvCatalog' \in Catalogs \ {srvCatalog}
    /\ hist' = [hist EXCEPT !.got.chg = hist.got.has]
    /\ UNCHANGED <<mcp, objs, tasks, srvMode, srvNextSid, lastReq, extVars>>

\* an open SSE connection is lost
TransportDrop ==
    /\ \E o \in 1..Len(objs) :
         /\ objs[o].st = "open"
         /\ objs' = SetObj(o, "dropped")
    /\ UNCHANGED <<mcp, tasks, srvMode, srvCatalog, srvNextSid, lastReq,
                 hist, extVars>>

\* ------------------------------------------------------- specifications
Step(t) ==
    \/ ConnectInitResponse(t)
    \/ ConnectInitBody(t)
    \/ ConnectTransport(t)
    \/ ConnectTimeout(t)
    \/ DisconnectShutdown(t)
    \/ DisconnectTransportClose(t)
    \/ DisconnectClientClose(t)
    \/ ReconnectDelay(t)
    \/ CallToolResponse(t)
    \/ ListToolsResponse(t)
    \/ Return(t)

Env ==
    \/ ServerModeChange(ServerModes)
    \/ ServerCatalogChange
    \/ TransportDrop

Start(t, seq) ==
    \/ StartConnect(t, seq)
    \/ StartDisconnect(t, seq)
    \/ StartReconnect(t, seq)
    \/ StartCallTool(t, seq)
    \/ StartCheckConnection(t, seq)
    \/ StartHealthCheck(t, seq)
    \/ GetAvailableTools(t, seq)

\* the caller awaits every call before it makes the next one
Next ==
    \/ \E t \in Tasks : Start(t, TRUE) \/ Step(t)
    \/ Env

Spec == Init /\ [][Next]_vars

\* a client whose connect() has returned, with no call in flight
InitConnected ==
    /\ ExtInit
    /\ mcp = AfterTransportConnected(AttachObjects(SetSessionId(NewClient, 1), 1))
    /\ objs = << [NewObj(1) EXCEPT !.st = "open"] >>
    /\ tasks = [t \in Tasks |-> Idle]
    /\ srvMode = "healthy"
    /\ srvCatalog = <<"list_clusters">>
    /\ srvNextSid = 2
    /\ lastReq = [method |-> "sse", sid |-> 1, active |-> FALSE, stale |-> FALSE]
    /\ hist = NoHist

\* the caller makes one callTool() call per slot without awaiting the ones
\* in flight, and keeps the results; the server answers or goes silent
NextConc ==
    \/ \E t \in Tasks : StartCallTool(t, FALSE) \/ CallToolResponse(t)
    \/ ServerModeChange({"healthy", "silent"})
    \/ TransportDrop

ConcSpec == InitConnected /\ [][NextConc]_vars

\* the caller makes connect() and disconnect() calls without awaiting the
\* ones in flight, one call per slot, against a healthy server
NextOverlap ==
    \E t \in Tasks :
        \/ StartConnect(t, FALSE)
        \/ StartDisconnect(t, FALSE)
        \/ ConnectInitResponse(t)
        \/ ConnectInitBody(t)
        \/ ConnectTransport(t)
        \/ ConnectTimeout(t)
        \/ DisconnectShutdown(t)
        \/ DisconnectTransportClose(t)
        \/ DisconnectClientClose(t)

OverlapSpec == Init /\ [][NextOverlap]_vars

\* ------------------------------------------- StreamableHTTP server, /mcp
\* transports[sessionId]: an own property holds a transport; the name of an
\* inherited property yields a value that is not a transport
Lookup(tm, hdr) ==
    CASE hdr \in DOMAIN tm /\ tm[hdr] # Null -> "transport"
      [] hdr = ProtoKey -> "inherited"
      [] OTHER -> "undefined"

\* `sessionId && transports[sessionId]`
HasTransport(tm, hdr) == hdr # Missing /\ Lookup(tm, hdr) # "undefined"

\* valid: the header names a session that an initialize has issued and
\* that is still live
Handled(sv, verb, init, hdr, status, dispatched) ==
    [ srv |-> "streamable", verb |-> verb, init |-> init, hdr |-> hdr,
      valid |-> (hdr \in DOMAIN sv.tmap /\ sv.tmap[hdr] # Null),
      wasDeleted |-> hdr \in sv.deleted,
      status |-> status, dispatched |-> dispatched ]

\* outcomes of `await transport.handleRequest(...)`: the SDK transport
\* handles the request, answers it with a 400 itself, or rejects
HandleOutcomes == {"ok", "rejected", "throw"}

\* the status of the response after handleRequest() settled: the catch
\* block answers 500
StatusOf(outcome) ==
    CASE outcome = "ok" -> 200
      [] outcome = "rejected" -> 400
      [] outcome = "throw" -> 500

\* delete transports[transport.sessionId]
DeleteEntry(sv, sid) == [sv EXCEPT !.tmap[sid] = Null]

\* transport.onclose
OnClose(sv, sid) == [DeleteEntry(sv, sid) EXCEPT !.ended = @ \cup {sid}]

\* app.post("/mcp")
StreamablePost ==
    /\ \E hdr \in HdrVals, init \in BOOLEAN :
         CASE HasTransport(server.tmap, hdr) ->
                IF Lookup(server.tmap, hdr) = "inherited"
                THEN server' = [server EXCEPT !.last =
                                   Handled(server, "POST", init, hdr, 500, FALSE)]
                ELSE \E r \in HandleOutcomes :
                       server' = [server EXCEPT !.last =
                                     Handled(server, "POST", init, hdr,
                                             StatusOf(r), TRUE)]
           [] ~HasTransport(server.tmap, hdr) /\ hdr = Missing /\ init ->
                /\ server.made < MaxSessions
                /\ \E c \in {"ok", "throw"}, r \in HandleOutcomes :
                     LET sv  == [server EXCEPT !.made = @ + 1]
                         \* sessionIdGenerator: () => randomUUID()
                         sid == server.made + 1
                     IN  server' =
                           IF c = "throw"
                           THEN [sv EXCEPT !.last =
                                    Handled(server, "POST", init, hdr, 500, FALSE)]
                           \* onsessioninitialized:
                           \* transports[sessionId] = transport
                           ELSE [(IF r = "ok"
                                  THEN [sv EXCEPT !.tmap[sid] = sv.made,
                                                  !.issued = @ \cup {sid}]
                                  ELSE sv)
                                 EXCEPT !.last = Handled(server, "POST", init, hdr,
                                                         StatusOf(r), TRUE)]
           [] OTHER ->
                server' = [server EXCEPT !.last =
                              Handled(server, "POST", init, hdr, 400, FALSE)]
    /\ UNCHANGED <<clientVars, http, simple, agent, config>>

\* app.get("/mcp")
StreamableGet ==
    /\ \E hdr \in HdrVals :
         IF ~HasTransport(server.tmap, hdr)
         THEN server' = [server EXCEPT !.last =
                            Handled(server, "GET", FALSE, hdr, 400, FALSE)]
         ELSE IF Lookup(server.tmap, hdr) = "inherited"
         THEN server' = [server EXCEPT !.last =
                            Handled(server, "GET", FALSE, hdr, 500, FALSE)]
         ELSE \E r \in HandleOutcomes :
                server' = [server EXCEPT !.last =
                              Handled(server, "GET", FALSE, hdr, StatusOf(r), TRUE)]
    /\ UNCHANGED <<clientVars, http, simple, agent, config>>

\* app.delete("/mcp"): a DELETE that handleRequest() handled closes the
\* transport, whose onclose deletes the entry; the entry is deleted again
\* after the await, which is skipped when handleRequest() rejects
StreamableDelete ==
    /\ \E hdr \in HdrVals :
         IF ~HasTransport(server.tmap, hdr)
         THEN server' = [server EXCEPT !.last =
                            Handled(server, "DELETE", FALSE, hdr, 400, FALSE)]
         ELSE IF Lookup(server.tmap, hdr) = "inherited"
         THEN server' = [server EXCEPT !.last =
                            Handled(server, "DELETE", FALSE, hdr, 500, FALSE)]
         ELSE \E r \in HandleOutcomes :
                LET sv == [server EXCEPT !.deleted = @ \cup {hdr}]
                    h  == Handled(server, "DELETE", FALSE, hdr, StatusOf(r), TRUE)
                IN  server' =
                      CASE r = "ok" ->
                             [DeleteEntry(OnClose(sv, hdr), hdr) EXCEPT !.last = h]
                        [] r = "rejected" ->
                             [DeleteEntry(sv, hdr) EXCEPT !.last = h]
                        [] r = "throw" -> [sv EXCEPT !.last = h]
    /\ UNCHANGED <<clientVars, http, simple, agent, config>>

\* a transport closes for another reason than a DELETE
TransportClosed ==
    /\ \E sid \in SessionIds :
         /\ server.tmap[sid] # Null
         /\ server' = OnClose(server, sid)
    /\ UNCHANGED <<clientVars, http, simple, agent, config>>

\* ------------------------------------------------- legacy server, /mcp
\* valid: the header names a session id that the legacy server has issued
\* and that no shutdown request has named
LegacyHandled(sv, verb, init, hdr, status, dispatched) ==
    [ srv |-> "legacy", verb |-> verb, init |-> init, hdr |-> hdr,
      valid |-> (hdr \in 1..sv.legacy /\ hdr \notin sv.legacyShut),
      wasDeleted |-> hdr \in sv.legacyShut,
      status |-> status, dispatched |-> dispatched ]

\* app.route("/mcp").post: initialize answers with a new session id that
\* is stored nowhere; every other request needs only some session id
LegacyPost ==
    /\ \E hdr \in HdrVals,
          m \in {"initialize", "shutdown", "tools/call", "tools/list", "other"} :
         CASE m = "initialize" ->
                /\ server.legacy < MaxSessions
                /\ server' = [server EXCEPT !.legacy = @ + 1, !.last =
                                 LegacyHandled(server, "POST", TRUE, hdr, 200, FALSE)]
           [] m # "initialize" /\ hdr = Missing ->
                server' = [server EXCEPT !.last =
                              LegacyHandled(server, "POST", FALSE, hdr, 400, FALSE)]
           [] m = "shutdown" /\ hdr # Missing ->
                server' = [server EXCEPT !.legacyShut = @ \cup ({hdr} \cap SessionIds),
                              !.last = LegacyHandled(server, "POST", FALSE, hdr,
                                                     200, FALSE)]
           [] m \in {"tools/call", "tools/list"} /\ hdr # Missing ->
                \E r \in {"ok", "throw"} :
                  server' = [server EXCEPT !.last =
                                LegacyHandled(server, "POST", FALSE, hdr,
                                              StatusOf(r), TRUE)]
           [] m = "other" /\ hdr # Missing ->
                server' = [server EXCEPT !.last =
                              LegacyHandled(server, "POST", FALSE, hdr, 500, FALSE)]
    /\ UNCHANGED <<clientVars, http, simple, agent, config>>

ServerNext ==
    \/ StreamablePost
    \/ StreamableGet
    \/ StreamableDelete
    \/ TransportClosed
    \/ LegacyPost

ServerSpec == Init /\ [][ServerNext]_vars

\* --------------------------- StreamableHTTP client (datbricks-agent)
HttpCall(op, name) ==
    [HttpIdle EXCEPT !.op = op, !.pc = "await", !.name = name,
                     !.pre = http.connected]

HttpReturned(c) == [c EXCEPT !.pc = "done", !.out = "returned"]
HttpRaised(c) == [c EXCEPT !.pc = "done", !.out = "raised"]

\* callTool(): the object literal that is returned, with no isError member
\* and one text item, JSON.stringify(result, null, 2): a text that spells
\* out the members of the result
WrapResult(result) ==
    [ content |-> << TextItem(<<"{", "content", result.content.items,
                               "isError", result.isError, "}">>) >>,
      isError |-> "undefined" ]

\* connect() up to `await this.client.connect(this.transport)`
HttpStartConnect ==
    /\ http.call.op = "idle"
    /\ http.made < MaxConnects
    /\ http' = [http EXCEPT !.made = @ + 1, !.transport = http.made + 1,
                            !.call = HttpCall("connect", "none")]
    /\ UNCHANGED <<clientVars, server, simple, agent, config>>

\* connect(): client.connect() settles
HttpConnectSettles ==
    /\ http.call.op = "connect" /\ http.call.pc = "await"
    /\ \E r \in {"ok", "throw"} :
         http' = IF r = "ok"
                 THEN [http EXCEPT !.connected = TRUE, !.sdk = "open",
                                   !.call = HttpReturned(@)]
                 ELSE [http EXCEPT !.sdk = "failed", !.call = HttpRaised(@)]
    /\ UNCHANGED <<clientVars, server, simple, agent, config>>

\* disconnect() up to `await this.client.close()`
HttpStartDisconnect ==
    /\ http.call.op = "idle"
    /\ http' = IF http.connected /\ http.transport # Null
               THEN [http EXCEPT !.call = HttpCall("disconnect", "none")]
               ELSE [http EXCEPT !.call = HttpReturned(HttpCall("disconnect", "none"))]
    /\ UNCHANGED <<clientVars, server, simple, agent, config>>

\* disconnect(): client.close() settles; a rejection is logged and the
\* flag keeps its value
HttpCloseSettles ==
    /\ http.call.op = "disconnect" /\ http.call.pc = "await"
    /\ \E r \in CloseOutcomes :
         http' = IF r = "ok"
                 THEN [http EXCEPT !.connected = FALSE, !.sdk = "closed",
                                   !.call = HttpReturned([@ EXCEPT !.closed = r])]
                 ELSE [http EXCEPT !.call = HttpReturned([@ EXCEPT !.closed = r])]
    /\ UNCHANGED <<clientVars, server, simple, agent, config>>

\* callTool() and listTools(): the guard, then the SDK call
HttpStartRequest ==
    /\ http.call.op = "idle"
    /\ \E op \in {"callTool", "listTools"}, name \in ToolNames :
         /\ op = "listTools" => name = "list_clusters"
         /\ http' = IF ~http.connected
                    THEN [http EXCEPT !.call = HttpRaised(HttpCall(op, name))]
                    ELSE [http EXCEPT !.call = HttpCall(op, name)]
    /\ UNCHANGED <<clientVars, server, simple, agent, config>>

\* callTool(): the SDK call resolves with a reply or rejects; listTools():
\* the SDK call resolves or rejects
HttpRequestSettles ==
    /\ http.call.op \in {"callTool", "listTools"} /\ http.call.pc = "await"
    /\ \/ /\ http.sdk = "open"
          \* a result whose isError is absent, true or false
          /\ \E rp \in { Reply(Content(TRUE, << TextItem(<<"[]">>) >>), e) :
                            e \in {"undefined", "true", "false"} } :
               http' = [http EXCEPT !.call =
                          HttpReturned([@ EXCEPT
                             !.reply = "result", !.raw = rp,
                             !.val = IF http.call.op = "callTool" THEN WrapResult(rp)
                                     ELSE NoResult])]
       \/ http' = [http EXCEPT !.call = HttpRaised([@ EXCEPT !.reply = "threw"])]
    /\ UNCHANGED <<clientVars, server, simple, agent, config>>

\* the caller takes the result of the settled call
HttpReturn ==
    /\ http.call.pc = "done"
    /\ http' = [http EXCEPT !.call = HttpIdle,
                            !.disconnected = (http.call.op = "disconnect"
                                              /\ http.call.out = "returned"
                                              /\ http.call.pre)]
    /\ UNCHANGED <<clientVars, server, simple, agent, config>>

HttpNext ==
    \/ HttpStartConnect
    \/ HttpConnectSettles
    \/ HttpStartDisconnect
    \/ HttpCloseSettles
    \/ HttpStartRequest
    \/ HttpRequestSettles
    \/ HttpReturn

HttpSpec == Init /\ [][HttpNext]_vars

\* --------------------------- SimpleMCPClient (simple-mcp-client.ts)
\* get isConnected
SimpleIsConnected(s) == s.client # Null /\ s.transport # Null

SimpleCall(op, pc, name) ==
    [SimpleIdle EXCEPT !.op = op, !.pc = pc, !.name = name,
                       !.pre = SimpleIsConnected(simple)]

SimpleReturned(c) == [c EXCEPT !.pc = "done", !.out = "returned"]
SimpleRaised(c) == [c EXCEPT !.pc = "done", !.out = "raised"]

\* connect() up to `await this.client.connect(this.transport)`: both
\* fields are assigned before the first await
SimpleStartConnect ==
    /\ simple.call.op = "idle"
    /\ simple.made < MaxConnects
    /\ simple' = [simple EXCEPT !.made = @ + 1,
                                !.transport = simple.made + 1,
                                !.client = simple.made + 1,
                                !.sdk = "new",
                                !.call = SimpleCall("connect", "connect", "none")]
    /\ UNCHANGED <<clientVars, server, http, agent, config>>

\* connect(): client.connect() settles; a rejection is logged and rethrown
SimpleConnectSettles ==
    /\ simple.call.op = "connect" /\ simple.call.pc = "connect"
    /\ \E r \in {"ok", "throw"} :
         simple' = IF r = "ok"
                   THEN [simple EXCEPT !.sdk = "open", !.call.pc = "list"]
                   ELSE [simple EXCEPT !.sdk = "failed",
                                       !.call = SimpleRaised(@)]
    /\ UNCHANGED <<clientVars, server, http, agent, config>>

\* connect(): client.listTools() settles; a rejection is logged and
\* rethrown
SimpleListSettles ==
    /\ simple.call.op = "connect" /\ simple.call.pc = "list"
    /\ \E r \in {"ok", "throw"} :
         simple' = IF r = "ok"
                   THEN [simple EXCEPT !.live = TRUE,
                                       !.call = SimpleReturned(@)]
                   ELSE [simple EXCEPT !.call = SimpleRaised(@)]
    /\ UNCHANGED <<clientVars, server, http, agent, config>>

\* disconnect() up to its first await, or to its return when neither
\* field is set
SimpleStartDisconnect ==
    /\ simple.call.op = "idle"
    /\ simple' = [simple EXCEPT !.call =
                    IF simple.client # Null
                    THEN SimpleCall("disconnect", "close", "none")
                    ELSE IF simple.transport # Null
                    THEN SimpleCall("disconnect", "tclose", "none")
                    ELSE SimpleReturned(SimpleCall("disconnect", "close", "none"))]
    /\ UNCHANGED <<clientVars, server, http, agent, config>>

\* disconnect(): client.close() settles; a rejection leaves disconnect()
\* with both fields as they were
SimpleClientCloseSettles ==
    /\ simple.call.op = "disconnect" /\ simple.call.pc = "close"
    /\ \E r \in {"ok", "throw"} :
         simple' = IF r = "throw"
                   THEN [simple EXCEPT !.call = SimpleRaised(@)]
                   ELSE IF simple.transport # Null
                   THEN [simple EXCEPT !.client = Null, !.sdk = "closed",
                                       !.call.pc = "tclose"]
                   ELSE [simple EXCEPT !.client = Null, !.sdk = "closed",
                                       !.live = FALSE,
                                       !.call = SimpleReturned(@)]
    /\ UNCHANGED <<clientVars, server, http, agent, config>>

\* disconnect(): transport.close() settles
SimpleTransportCloseSettles ==
    /\ simple.call.op = "disconnect" /\ simple.call.pc = "tclose"
    /\ \E r \in {"ok", "throw"} :
         simple' = IF r = "throw"
                   THEN [simple EXCEPT !.call = SimpleRaised(@)]
                   ELSE [simple EXCEPT !.transport = Null, !.live = FALSE,
                                       !.call = SimpleReturned(@)]
    /\ UNCHANGED <<clientVars, server, http, agent, config>>

\* callTool(): the guard on this.client, then the SDK call
SimpleStartCallTool ==
    /\ simple.call.op = "idle"
    /\ \E name \in ToolNames :
         simple' = [simple EXCEPT !.call =
                      IF simple.client = Null
                      THEN SimpleRaised(SimpleCall("callTool", "call", name))
                      ELSE SimpleCall("callTool", "call", name)]
    /\ UNCHANGED <<clientVars, server, http, agent, config>>

\* callTool(): the SDK call resolves, or rejects and the error is rethrown;
\* an SDK client that is not open rejects
SimpleCallToolSettles ==
    /\ simple.call.op = "callTool" /\ simple.call.pc = "call"
    /\ \/ /\ simple.sdk = "open"
          /\ simple' = [simple EXCEPT !.call = SimpleReturned(@)]
       \/ simple' = [simple EXCEPT !.call = SimpleRaised(@)]
    /\ UNCHANGED <<clientVars, server, http, agent, config>>

\* the caller takes the result of the settled call
SimpleReturn ==
    /\ simple.call.pc = "done"
    /\ simple' = [simple EXCEPT !.call = SimpleIdle]
    /\ UNCHANGED <<clientVars, server, http, agent, config>>

SimpleNext ==
    \/ SimpleStartConnect
    \/ SimpleConnectSettles
    \/ SimpleListSettles
    \/ SimpleStartDisconnect
    \/ SimpleClientCloseSettles
    \/ SimpleTransportCloseSettles
    \/ SimpleStartCallTool
    \/ SimpleCallToolSettles
    \/ SimpleReturn

SimpleSpec == Init /\ [][SimpleNext]_vars

\* --------------------------- DatabricksAgent.invoke
\* what graph.invoke() and reconnect() reject with
ThrownValues ==
    { Thrown(TRUE, <<"SSE", "connection", "closed">>),
      Thrown(TRUE, <<"Connection", "refused">>),
      Thrown(TRUE, <<"MCP", "client", "not", "connected">>),
      Thrown(FALSE, <<"connection", "lost">>) }

\* error instanceof Error && error.message.includes('connection')
IsConnectionIssue_AnyError(e) == e.isError

IsConnectionIssue(e) ==
    /\ e.isError
    /\ \E i \in 0..(Len(e.msg) - 1) : SubSeq(e.msg, i + 1, i + 1) = <<"connection">>

\* the outcomes of `await this.graph.invoke(state)`
GraphOutcomes ==
    { [ kind |-> "resolved", messages |-> <<>>, error |-> NoThrown ],
      [ kind |-> "resolved", messages |-> <<"answer">>, error |-> NoThrown ] }
    \cup { [ kind |-> "rejected", messages |-> <<>>, error |-> e ] :
              e \in ThrownValues }

\* result.messages[result.messages.length - 1].content, or what the try
\* block throws: the rejection, or the TypeError of reading .content of the
\* last of no messages
LastContent(o) ==
    IF o.kind = "rejected" THEN [ threw |-> TRUE, error |-> o.error, content |-> "none" ]
    ELSE IF Len(o.messages) = 0
    THEN [ threw |-> TRUE, content |-> "none",
           error |-> Thrown(TRUE, <<"Cannot", "read", "properties", "of",
                                    "undefined">>) ]
    ELSE [ threw |-> FALSE, error |-> NoThrown,
           content |-> o.messages[Len(o.messages)] ]

\* error instanceof Error ? error.message : String(error)
ErrorString(e) ==
    [ kind |-> "error", text |-> <<"Error processing request: ">> \o e.msg ]

ReconnectFailedString(e) ==
    [ kind |-> "reconnectFailed",
      text |-> <<"Connection error occurred and reconnection failed: ">>
               \o e.msg ]

\* invoke() up to the first `await this.graph.invoke(state)`
AgentStartInvoke ==
    /\ agent.pc = "idle"
    /\ \E m \in {"list clusters", "train model"} :
         agent' = [AgentInit EXCEPT !.pc = "first", !.message = m,
                                    !.graphCalls = 1, !.last = agent.last]
    /\ UNCHANGED <<clientVars, server, http, simple, config>>

\* the first graph.invoke() settles: the content is returned, or the catch
\* block starts a reconnect or returns the error string
AgentFirstSettles ==
    /\ agent.pc = "first"
    /\ \E o \in GraphOutcomes :
         LET r == LastContent(o)
         IN agent' =
              IF ~r.threw
              THEN [agent EXCEPT !.pc = "done", !.out = "returned",
                                 !.val = [ kind |-> "content",
                                           text |-> <<r.content>> ]]
              ELSE IF IsConnectionIssue(r.error)
              THEN [agent EXCEPT !.pc = "reconnect", !.err = r.error,
                                 !.reconnects = @ + 1]
              ELSE [agent EXCEPT !.pc = "done", !.out = "returned",
                                 !.err = r.error,
                                 !.val = ErrorString(r.error)]
    /\ UNCHANGED <<clientVars, server, http, simple, config>>

\* `await this.mcpClient.reconnect()` settles: the retry starts, or the
\* inner catch returns
AgentReconnectSettles ==
    /\ agent.pc = "reconnect"
    /\ \/ agent' = [agent EXCEPT !.pc = "retry", !.reconnected = TRUE,
                                  !.graphCalls = @ + 1]
       \/ \E e \in ThrownValues :
            agent' = [agent EXCEPT !.pc = "done", !.out = "returned",
                                   !.err2 = e,
                                   !.val = ReconnectFailedString(e)]
    /\ UNCHANGED <<clientVars, server, http, simple, config>>

\* the second graph.invoke() settles: the content is returned, or the
\* inner catch returns
AgentRetrySettles ==
    /\ agent.pc = "retry"
    /\ \E o \in GraphOutcomes :
         LET r == LastContent(o)
         IN agent' =
              IF ~r.threw
              THEN [agent EXCEPT !.pc = "done", !.out = "returned",
                                 !.val = [ kind |-> "content",
                                           text |-> <<r.content>> ]]
              ELSE [agent EXCEPT !.pc = "done", !.out = "returned",
                                 !.err2 = r.error,
                                 !.val = ReconnectFailedString(r.error)]
    /\ UNCHANGED <<clientVars, server, http, simple, config>>

\* the caller takes the value of the settled invoke()
AgentReturn ==
    /\ agent.pc = "done"
    /\ agent' = [AgentInit EXCEPT !.last = agent.val.kind]
    /\ UNCHANGED <<clientVars, server, http, simple, config>>

AgentNext ==
    \/ AgentStartInvoke
    \/ AgentFirstSettles
    \/ AgentReconnectSettles
    \/ AgentRetrySettles
    \/ AgentReturn

AgentSpec == Init /\ [][AgentNext]_vars

\* --------------------------- the tools that read MODEL_CONFIG
\* { ...baseParams, ...additional_params }: a new object
Spread(base, add) ==
    [ base EXCEPT
        !.experiment_name = IF add.experiment_name.has
                            THEN add.experiment_name.v ELSE @,
        !.model_name = IF add.model_name.has THEN add.model_name.v ELSE @ ]

\* checkForExperiment(): the experiment found or created under the path
\* `/Shared/${experimentName}` with one of the ids the workspace answers
\* with, or the error object
CheckForExperiment(name) ==
    { [ error |-> FALSE, experiment_id |-> id,
        experiment_name |-> <<"/Shared/">> \o name ] : id \in {"123", "900"} }
    \cup { [ error |-> TRUE, experiment_id |-> "none", experiment_name |-> <<>> ] }

ConfigCall(op, pc, mt, add) ==
    [ConfigIdle EXCEPT !.op = op, !.pc = pc, !.model_type = mt,
                       !.additional_params = add,
                       !.supported = (mt \in DOMAIN config.cfg)]

\* train_and_register_model up to its first await; model_type is a key of
\* MODEL_CONFIG or another text, additional_params has an experiment_name
\* or none and a model_name or none
TrainAndRegisterModel ==
    /\ config.call.op = "idle"
    /\ \E mt \in ModelTypes \cup {"other"},
          add \in [ experiment_name : { Absent, Member(<<>>),
                                        Member(<<"ShingrixPO">>),
                                        Member(<<"Trial">>) },
                    model_name : { Absent, Member(<<"custom">>) } ] :
         config' =
           IF mt \notin DOMAIN config.cfg
           THEN [config EXCEPT !.call =
                   [ConfigCall("train", "done", mt, add) EXCEPT !.out = "returned"]]
           \* if (newExperimentName)
           ELSE IF add.experiment_name.has /\ add.experiment_name.v # <<>>
           THEN [config EXCEPT !.call = ConfigCall("train", "check", mt, add)]
           ELSE [config EXCEPT !.call =
                   [ConfigCall("train", "run", mt, add) EXCEPT
                      !.params = Spread(config.cfg[mt], add)]]
    /\ UNCHANGED <<clientVars, server, http, simple, agent>>

\* train_and_register_model: checkForExperiment() settles; baseParams is
\* MODEL_CONFIG[model_type] itself, and the two assignments write to the
\* shared object
TrainExperimentChecked ==
    /\ config.call.op = "train" /\ config.call.pc = "check"
    /\ \E r \in CheckForExperiment(config.call.additional_params.experiment_name.v) :
         LET mt == config.call.model_type
             cfg == IF ~r.error
                       /\ r.experiment_name # config.cfg[mt].experiment_name
                    THEN [config.cfg EXCEPT
                            ![mt].experiment_id = r.experiment_id,
                            ![mt].experiment_name = r.experiment_name]
                    ELSE config.cfg
         IN config' = [config EXCEPT
                         !.cfg = cfg,
                         !.call.pc = "run",
                         !.call.params =
                            Spread(cfg[mt], config.call.additional_params)]
    /\ UNCHANGED <<clientVars, server, http, simple, agent>>

\* train_and_register_model: createAndRunNotebook() settles
TrainRunSettles ==
    /\ config.call.op = "train" /\ config.call.pc = "run"
    /\ \E r \in {"ok", "throw"} :
         config' = [config EXCEPT !.call.pc = "done",
                                  !.call.out = IF r = "ok" THEN "returned"
                                               ELSE "raised"]
    /\ UNCHANGED <<clientVars, server, http, simple, agent>>

\* get_train_experiment_info: default_params is MODEL_CONFIG[model_type]
GetTrainExperimentInfo ==
    /\ config.call.op = "idle"
    /\ \E mt \in ModelTypes \cup {"other"} :
         config' = [config EXCEPT !.call =
                      [ConfigCall("info", "done", mt, ConfigIdle.additional_params)
                         EXCEPT !.out = "returned",
                                !.params = IF mt \in DOMAIN config.cfg
                                           THEN config.cfg[mt] ELSE NoParams]]
    /\ UNCHANGED <<clientVars, server, http, simple, agent>>

\* the reply leaves the server
ConfigReturn ==
    /\ config.call.pc = "done"
    /\ config' = [config EXCEPT !.call = ConfigIdle]
    /\ UNCHANGED <<clientVars, server, http, simple, agent>>

ConfigNext ==
    \/ TrainAndRegisterModel
    \/ TrainExperimentChecked
    \/ TrainRunSettles
    \/ GetTrainExperimentInfo
    \/ ConfigReturn

ConfigSpec == Init /\ [][ConfigNext]_vars

\* ------------------------------------------------------------------ types
TypeOK ==
    /\ mcp.client \in 0..Len(objs)
    /\ mcp.transport \in 0..Len(objs)
    /\ mcp.sessionId \in 0..(srvNextSid - 1)
    /\ mcp.isConnected \in BOOLEAN
    /\ \A o \in 1..Len(objs) : objs[o].st \in ObjStates /\ objs[o].sid \in 1..(srvNextSid - 1)
    /\ srvMode \in ServerModes
    /\ srvCatalog \in Catalogs

\* ----------------------------------------------------------------- claims
Done(t, op) == tasks[t].pc = "done" /\ tasks[t].op = op

\* the disconnect() of a disconnect or reconnect call has finished
DisconnectFinished(t) ==
    \/ Done(t, "disconnect")
    \/ tasks[t].op = "reconnect" /\ tasks[t].pc = "r_delay"

\* C1: once disconnect() has finished, after any calls of connect() and
\* callTool() and whatever the shutdown request did, the client has
\* connected = false, a null session id and an empty tool cache.
C1_DisconnectLeavesClean ==
    \A t \in Tasks :
        DisconnectFinished(t) =>
            /\ ~mcp.isConnected
            /\ mcp.sessionId = Null
            /\ mcp.availableTools = <<>>

\* a disconnect() of a client that was connected, with a session id, has
\* finished although the shutdown request could not reach the server
C1_Witness ==
    \E t \in Tasks :
        /\ Done(t, "disconnect")
        /\ tasks[t].pre.isConnected
        /\ tasks[t].pre.sessionId # Null
        /\ tasks[t].shut = "neterr"

\* a callTool that got past the guard has settled
CallSettled(t) == Done(t, "callTool") /\ tasks[t].reply # "none"

\* the result is one text item 'Error calling tool <name>: <message>'
IsErrorEnvelope(val, name) ==
    /\ val.isError = "true"
    /\ Len(val.content) = 1
    /\ val.content[1].type = "text"
    /\ Len(val.content[1].text) > 0
    /\ \E msg \in Msgs : val.content[1].text = ErrorText(name, msg)

\* the call failed: the SDK call rejected, or the reply says isError
CallFailed(tk) ==
    \/ tk.reply = "threw"
    \/ tk.reply = "result" /\ tk.raw.isError \in {"true", "truthy"}

\* C2 as stated: every callTool that fails returns, and never raises, a
\* result with isError = true and exactly one text item of the form
\* 'Error calling tool <name>: <message>'.
C2_Orig ==
    \A t \in Tasks :
        (CallSettled(t) /\ CallFailed(tasks[t])) =>
            /\ tasks[t].out = "returned"
            /\ IsErrorEnvelope(tasks[t].val, tasks[t].name)

\* C2 amended: a callTool on a client that holds an SDK client returns and
\* never raises; when the SDK call rejects, the result has isError = true
\* and exactly one text item 'Error calling tool <name>: <message>'; when
\* the server replies with a result that carries isError = true, the result
\* has isError = true and the content items of the reply, unchanged.
C2_ErrorUniformity ==
    \A t \in Tasks :
        CallSettled(t) =>
            /\ tasks[t].out = "returned"
            /\ tasks[t].reply = "threw" =>
                 IsErrorEnvelope(tasks[t].val, tasks[t].name)
            /\ (tasks[t].reply = "result" /\ CallFailed(tasks[t])) =>
                 /\ tasks[t].val.isError = "true"
                 /\ tasks[t].val.content =
                      IF tasks[t].raw.content.isArray
                      THEN tasks[t].raw.content.items ELSE <<>>

\* a callTool whose request timed out has returned its envelope
C2_Witness ==
    \E t \in Tasks :
        /\ CallSettled(t)
        /\ tasks[t].reply = "threw"
        /\ tasks[t].val = ErrorResult(tasks[t].name, "Request timed out")

\* C9: disconnect() never raises because the shutdown request, the
\* transport.close() or the client.close() failed; the later cleanup steps
\* still run, so that no transport and no SDK client is held at the end.
C9_DisconnectNeverRaises ==
    \A t \in Tasks :
        /\ Done(t, "disconnect") =>
             /\ tasks[t].out = "returned"
             /\ mcp.transport = Null
             /\ mcp.client = Null
        /\ (Done(t, "reconnect") /\ tasks[t].out = "raised") =>
             tasks[t].init # "none"

\* a disconnect() has returned after the shutdown request and both close
\* calls failed
C9_Witness ==
    \E t \in Tasks :
        /\ Done(t, "disconnect")
        /\ tasks[t].out = "returned"
        /\ tasks[t].shut \in {"neterr", "nonok"}
        /\ tasks[t].tcl = "throw"
        /\ tasks[t].ccl = "throw"

\* a connect() call that started on a client with an active session
ConnectOnActive(t) ==
    /\ tasks[t].op = "connect"
    /\ tasks[t].pre.sessionId # Null
    /\ tasks[t].preLive

\* C3 as stated: connect() called on a client that is already connected
\* performs no second handshake: it replaces neither the session id nor the
\* transport nor the SDK client.
C3_Orig ==
    \A t \in Tasks :
        ConnectOnActive(t) =>
            /\ mcp.sessionId = tasks[t].pre.sessionId
            /\ mcp.transport = tasks[t].pre.transport
            /\ mcp.client = tasks[t].pre.client

\* the client holds nothing of a connection
FullyDisconnected(c) ==
    /\ ~c.isConnected
    /\ c.sessionId = Null
    /\ c.transport = Null
    /\ c.client = Null
    /\ c.availableTools = <<>>

\* C4 as stated: whenever reconnect() raises, the client is left fully
\* disconnected: connected = false, no session id, no transport, no SDK
\* client, empty tool cache.
C4_Orig ==
    \A t \in Tasks :
        (Done(t, "reconnect") /\ tasks[t].out = "raised") =>
            FullyDisconnected(mcp)

\* the three handshake failures: non-success status, success status without
\* the session id header, malformed or error response body
HandshakeFailures == {"nonok", "nohdr", "badjson", "errbody"}

\* C5 as stated: in each of the three handshake failure outcomes connect()
\* raises and the client ends with a null session id and connected = false.
C5_Orig ==
    \A t \in Tasks :
        (Done(t, "connect") /\ tasks[t].init \in HandshakeFailures) =>
            /\ tasks[t].out = "raised"
            /\ mcp.sessionId = Null
            /\ ~mcp.isConnected

\* the step is the end of a disconnect(): it clears the session id
DisconnectClears ==
    /\ mcp'.sessionId = Null
    /\ \E t \in Tasks : tasks[t].pc \in {"d_shutdown", "d_tclose", "d_cclose"}

\* C6 as stated: once an initialize response has set the session id that
\* the client attaches to its requests, the id never changes until a
\* disconnect() clears it.
C6_Orig ==
    [][ (mcp.sessionId # Null /\ mcp'.sessionId # mcp.sessionId)
            => DisconnectClears ]_vars

\* a connect() whose handshake and transport connection both succeeded
ConnectedThrough(t) ==
    /\ Done(t, "connect")
    /\ tasks[t].init = "ok"
    /\ tasks[t].conn = "ok"

\* C7 as stated: after a connect() in which the handshake and the transport
\* connection succeeded and the tools/list fetch did not fail, connect()
\* has returned, connected is true and the tool cache holds the descriptors
\* that the server returned, in the same order.
C7_Orig ==
    \A t \in Tasks :
        (ConnectedThrough(t) /\ tasks[t].reply # "throw") =>
            /\ tasks[t].out = "returned"
            /\ mcp.isConnected
            /\ tasks[t].reply = "ok"
            /\ mcp.availableTools = tasks[t].cat

\* C8 as stated: after a connect() in which the handshake and the transport
\* connection succeeded and no tool catalog was obtained, connect() has
\* returned and the client is connected but degraded: connected = true, an
\* empty catalog, and an SDK client through which callTool is still sent.
C8_Orig ==
    \A t \in Tasks :
        (ConnectedThrough(t) /\ tasks[t].reply # "ok") =>
            /\ tasks[t].out = "returned"
            /\ mcp.isConnected
            /\ mcp.availableTools = <<>>
            /\ mcp.client # Null

\* C10 as stated: no request other than initialize (and the opening of the
\* event stream that belongs to connect()) is sent while the client has no
\* active session.
C10_Orig ==
    lastReq.method \in {"shutdown", "tools/call", "tools/list"} => lastReq.active


\* C11: healthCheck() never raises; it answers false when the client holds
\* no SDK client and when the tools/list round trip fails, and answers true
\* only when the round trip succeeded.
C11_HealthCheckTotal ==
    \A t \in Tasks :
        LET tk == tasks[t] IN
        /\ tk.op = "healthCheck" => tk.out # "raised"
        /\ Done(t, "healthCheck") =>
              /\ tk.out = "returned"
              /\ tk.pre.client = Null => ~tk.ok
              /\ tk.reply = "throw" => ~tk.ok
              /\ tk.ok => tk.reply = "ok" /\ tk.pre.client # Null

\* a healthCheck() on a client that holds an SDK client, whose tools/list
\* round trip failed, answered false
C11_Witness ==
    \E t \in Tasks :
        /\ Done(t, "healthCheck")
        /\ tasks[t].pre.client # Null
        /\ tasks[t].reply = "throw"
        /\ ~tasks[t].ok

ConnectFailed(tk) ==
    \/ tk.init \in {"neterr", "nonok", "nohdr", "badjson", "errbody"}
    \/ tk.conn = "fail"

\* C12: reconnect() is one disconnect(), then the delay, then one connect(),
\* in that order; a failure of the connect() leaves reconnect() as an
\* exception; nothing is retried.
C12_ReconnectOnce ==
    \A t \in Tasks :
        LET tk == tasks[t] IN
        tk.op = "reconnect" =>
            /\ tk.ndisc = 1
            /\ tk.nconn <= 1
            /\ tk.pc \in {"d_shutdown", "d_tclose", "d_cclose", "r_delay"}
                  => tk.nconn = 0 /\ ~tk.delayed
            /\ tk.pc \in {"c_init", "c_body", "c_connect", "c_tools", "done"}
                  => tk.nconn = 1 /\ tk.delayed
            /\ tk.pc = "done" /\ ConnectFailed(tk) => tk.out = "raised"
            /\ tk.pc = "done" /\ tk.out = "returned" => tk.conn = "ok"

\* a reconnect() of a client with a session id, whose connect() failed, has
\* raised after one disconnect() and one connect()
C12_Witness ==
    \E t \in Tasks :
        /\ Done(t, "reconnect")
        /\ tasks[t].pre.sessionId # Null
        /\ ConnectFailed(tasks[t])
        /\ tasks[t].out = "raised"
        /\ tasks[t].ndisc = 1 /\ tasks[t].nconn = 1

\* the server was not healthy, or the connection was lost again, when the
\* call tk was answered
Disturbed(tk) == tk.srv \in {"flaky", "silent"} \/ tk.st = "dropped"

\* C13: after a reconnect() that started on a client whose connection was
\* lost has returned, the next callTool('list_clusters'), answered by a
\* healthy server over the new connection, returns a result that is not an
\* error.
C13_CallAfterReconnect ==
    \A t \in Tasks :
        LET tk == tasks[t] IN
        Done(t, "callTool") /\ tk.name = "list_clusters" /\ tk.after = "lost"
          /\ ~Disturbed(tk)
        => /\ tk.out = "returned"
           /\ tk.reply = "result"
           /\ tk.val.isError # "true"
           /\ tk.val = NormalizeResult(tk.raw)

\* such a call has been answered by the healthy server
C13_Witness ==
    \E t \in Tasks :
        /\ Done(t, "callTool") /\ tasks[t].name = "list_clusters"
        /\ tasks[t].after = "lost"
        /\ tasks[t].pre.sessionId # Null
        /\ tasks[t].srv = "healthy" /\ tasks[t].st = "open"
        /\ tasks[t].out = "returned"
        /\ tasks[t].val.isError # "true"

\* a getAvailableTools() returned what the call before it returned, if
\* there was one since the last connect()
SameAsBefore(tk) ==
    /\ tk.out = "returned"
    /\ tk.prev.has => tk.tools = tk.prev.tools

\* the step is a call of getAvailableTools() on slot t
IsGetAvailableTools(t) ==
    tasks[t].op = "idle" /\ tasks'[t].op = "getAvailableTools"

\* C14: getAvailableTools() returns the cached catalog without a request:
\* the step puts nothing on the wire and changes no field, and two calls
\* with no connect() between them return the same list, also when the
\* server's catalog changed between them.
C14_CachedCatalog ==
    /\ [](\A t \in Tasks : Done(t, "getAvailableTools") => SameAsBefore(tasks[t]))
    /\ [][\A t \in Tasks : IsGetAvailableTools(t) =>
              /\ lastReq' = lastReq
              /\ mcp' = mcp
              /\ tasks'[t].tools = mcp.availableTools]_vars

\* a second getAvailableTools() has returned after the server's catalog
\* changed, on a client that holds a session
C14_Witness ==
    \E t \in Tasks :
        /\ Done(t, "getAvailableTools")
        /\ tasks[t].prev.has /\ tasks[t].prev.chg
        /\ tasks[t].pre.sessionId # Null /\ tasks[t].preLive

\* the connect() of the call tk has its own session id and has built its
\* connection from it
OwnSession(tk) ==
    /\ tk.hdr # Null
    /\ tk.hdr \notin hist.closed
    /\ tk.pc \in {"c_body", "c_connect"} => mcp.sessionId = tk.hdr
    /\ tk.pc = "c_connect" =>
          /\ objs[tk.obj].sid = tk.hdr
          /\ lastReq.method = "sse" /\ lastReq.sid = tk.hdr
    /\ tk.pc = "done" /\ tk.conn = "ok" =>
          /\ mcp.sessionId = tk.hdr
          /\ mcp.client # Null /\ objs[mcp.client].sid = tk.hdr

\* C15: the id of a session that disconnect() has closed is never used
\* again: no later request of the client carries it, and a later connect()
\* uses the id that its own initialize request was answered with.
C15_NoSessionReuse ==
    /\ ~lastReq.stale
    /\ \A t \in Tasks :
          tasks[t].op \in {"connect", "reconnect"} /\ tasks[t].init \in {"hdr", "ok"}
          => OwnSession(tasks[t])

\* a connect() that follows a disconnect() which closed a session has sent
\* the SSE request of its new session
C15_Witness ==
    \E t \in Tasks :
        /\ tasks[t].pc = "c_connect"
        /\ hist.closed # {}
        /\ lastReq.method = "sse"
        /\ lastReq.sid \notin hist.closed

\* the probe of the call tk went out on a client that held a session id and
\* an SDK client whose connection had been opened
ProbeOnActive(tk) ==
    /\ tk.pre.sessionId # Null
    /\ tk.pre.client # Null
    /\ objs[tk.obj].st \in {"open", "dropped"}

\* C16 as stated: when a checkConnection() probe on an active session
\* fails, the client is closed: connected = false and no session id held.
C16_Orig ==
    \A t \in Tasks :
        Done(t, "checkConnection") /\ tasks[t].reply = "throw"
          /\ ProbeOnActive(tasks[t])
        => ~mcp.isConnected /\ mcp.sessionId = Null

\* C17 as stated: connect() terminates when the server does not answer:
\* once the connection timeout has fired on a silent server, the call has
\* settled.
C17_Orig ==
    \A t \in Tasks :
        tasks[t].timer = "fired" /\ srvMode = "silent" => tasks[t].pc = "done"

\* the disconnect() of the call tk has not cleared the session id, the
\* flag or the catalog yet
NotCleared(tk) ==
    /\ mcp.sessionId = tk.pre.sessionId
    /\ mcp.isConnected = tk.pre.isConnected
    /\ mcp.availableTools = tk.pre.availableTools

\* the shutdown request of the call tk was sent exactly if the client held
\* a session id, and has settled
ShutdownFirst(tk) == tk.shut # "none" <=> tk.pre.sessionId # Null

\* the transport of the call tk was closed exactly if there was one
TransportSecond(tk) == tk.tcl # "none" <=> tk.pre.transport # Null

\* C20: disconnect() sends the shutdown request, only if a session id is
\* held, then closes the transport, then clears the session id, the flag
\* and the catalog; nothing is cleared before the shutdown request has
\* succeeded or failed.
C20_DisconnectOrder ==
    \A t \in Tasks :
        LET tk == tasks[t] IN
        /\ tk.pc = "d_shutdown" =>
              /\ mcp = tk.pre
              /\ tk.pre.sessionId # Null
              /\ tk.shut = "none" /\ tk.tcl = "none" /\ tk.ccl = "none"
              /\ lastReq.method = "shutdown" /\ lastReq.sid = tk.pre.sessionId
        /\ tk.pc = "d_tclose" =>
              /\ ShutdownFirst(tk) /\ NotCleared(tk)
              /\ tk.tcl = "none" /\ tk.ccl = "none"
        /\ tk.pc = "d_cclose" =>
              /\ ShutdownFirst(tk) /\ TransportSecond(tk) /\ NotCleared(tk)
        /\ DisconnectFinished(t) =>
              /\ ShutdownFirst(tk) /\ TransportSecond(tk)
              /\ mcp.sessionId = Null /\ ~mcp.isConnected
              /\ mcp.availableTools = <<>>

\* a disconnect() of a client with a session id and a transport has
\* finished after its shutdown request failed
C20_Witness ==
    \E t \in Tasks :
        /\ Done(t, "disconnect")
        /\ tasks[t].pre.sessionId # Null /\ tasks[t].pre.transport # Null
        /\ tasks[t].shut = "neterr"
        /\ tasks[t].tcl # "none"
        /\ mcp.sessionId = Null

\* the settled callTool() tk got the answer to its own request and built
\* its result from it
OwnResult(tk) ==
    /\ tk.out = "returned"
    /\ tk.ans = tk.rid
    /\ tk.reply = "result" => tk.val = NormalizeResult(tk.raw)
    /\ tk.reply = "threw" => IsErrorEnvelope(tk.val, tk.name)

\* the step settles the callTool() on slot t with a failure
FailsNow(t) ==
    /\ tasks[t].pc = "t_call"
    /\ tasks'[t].pc = "done"
    /\ CallFailed(tasks'[t])

\* C18: a callTool() that fails or times out changes no connection state:
\* the fields of the client, the connections and the calls of the other
\* slots are as before the failure; a call that was in flight when another
\* one failed can still be answered and settles with its own result.
C18_FailureIsLocal ==
    /\ [][\A t \in Tasks : FailsNow(t) =>
              /\ mcp' = mcp
              /\ objs' = objs
              /\ lastReq' = lastReq
              /\ \A u \in Tasks \ {t} : tasks'[u] = tasks[u]]_vars
    /\ [](\A t \in Tasks :
              /\ tasks[t].pc = "t_call" => ENABLED CallToolResponse(t)
              /\ Done(t, "callTool") /\ tasks[t].sawFail => OwnResult(tasks[t]))

\* a callTool() timed out while another one was in flight, and that one
\* was then answered with a success result; the session is still held
C18_Witness ==
    \E t, u \in Tasks :
        /\ t # u
        /\ Done(u, "callTool")
        /\ tasks[u].val = ErrorResult(tasks[u].name, "Request timed out")
        /\ tasks[u].srv = "silent"
        /\ Done(t, "callTool")
        /\ tasks[t].sawFail
        /\ tasks[t].reply = "result" /\ tasks[t].val.isError # "true"
        /\ mcp.sessionId # Null /\ mcp.client # Null

C21_DisconnectIdempotent ==
    \A t \in Tasks :
        LET tk == tasks[t] IN
        tk.op = "disconnect" /\ FullyDisconnected(tk.pre) =>
            /\ Done(t, "disconnect") /\ tk.out = "returned"
            /\ tk.shut = "none" /\ tk.tcl = "none" /\ tk.ccl = "none"
            /\ mcp = tk.pre
            /\ lastReq.method # "shutdown" \/ lastReq.sid # Null

\* a disconnect() made right after a disconnect() that had closed a session
\* has returned
C21_Witness ==
    \E t \in Tasks :
        /\ Done(t, "disconnect")
        /\ tasks[t].after = "disc"
        /\ hist.closed # {}
        /\ FullyDisconnected(tasks[t].pre)
        /\ tasks[t].out = "returned"

\* C26 as stated: whenever no call is in flight, connected = true implies
\* that a session id, a transport and an SDK client are held, and a null
\* session id implies connected = false, no transport, no SDK client and an
\* empty tool catalog.
C26_Orig ==
    NoneInFlight =>
        /\ mcp.isConnected =>
              mcp.sessionId # Null /\ mcp.transport # Null /\ mcp.client # Null
        /\ mcp.sessionId = Null => FullyDisconnected(mcp)

\* every call has settled and one of them was made while another one was
\* in flight
OverlapSettled ==
    /\ \A t \in Tasks : tasks[t].pc \in {"idle", "done"}
    /\ \E t \in Tasks : tasks[t].ovl

\* the connection o is one the client no longer holds and that is still up
LeakedObj(o) ==
    /\ o \notin {mcp.client, mcp.transport}
    /\ objs[o].st \in {"open", "dropped"}

\* the session sid was issued by the server, is not the one the client
\* holds, and no disconnect() has closed it
LeakedSession(sid) ==
    /\ sid # mcp.sessionId
    /\ sid \notin hist.closed

\* C27 as stated: once overlapping connect() and disconnect() calls have
\* all settled, no connection that the client no longer holds is still up
\* and no session other than the one it holds is left open.
C27_Orig ==
    OverlapSettled =>
        /\ \A o \in 1..Len(objs) : ~LeakedObj(o)
        /\ \A sid \in 1..(srvNextSid - 1) : ~LeakedSession(sid)

\* the request handled last is one that must bear the id of a live session
\* and does not
Unidentified(h) ==
    /\ h.verb # "none"
    /\ ~(h.verb = "POST" /\ h.init)
    /\ ~h.valid

\* C22 as stated: a non-initialize POST, a GET or a DELETE on /mcp whose
\* session id header is missing or names no live session that an initialize
\* issued is answered with a 400-class status and dispatched to no handler.
C22_Orig ==
    Unidentified(server.last) =>
        /\ server.last.status \in 400..499
        /\ ~server.last.dispatched

\* C23 as stated: the session map of the StreamableHTTP server has an entry
\* for a session id exactly from its initialize until its transport closes
\* or a DELETE for it is handled, and after a DELETE every request that
\* bears the id is answered 400.
C23_Orig ==
    /\ \A sid \in SessionIds :
          server.tmap[sid] # Null <=>
             sid \in server.issued \ (server.ended \cup server.deleted)
    /\ server.last.srv = "streamable" /\ server.last.wasDeleted
          => server.last.status = 400

\* C24 as stated: once disconnect() has returned on a connected
\* StreamableHTTP client, isConnected() is false, and a callTool() or
\* listTools() made next is rejected as not connected, also when
\* client.close() failed.
C24_Orig ==
    /\ http.call.op = "disconnect" /\ http.call.pc = "done" /\ http.call.pre
          => http.call.out = "returned" /\ ~http.connected
    /\ http.disconnected /\ http.call.op \in {"callTool", "listTools"}
          => http.call.pc = "done" /\ http.call.out = "raised"
                /\ http.call.reply = "none"

\* C25 as stated: when the tools/call reply is a valid result with
\* isError = true, callTool() of the StreamableHTTP client returns an
\* envelope with isError = true.
C25_Orig ==
    http.call.op = "callTool" /\ http.call.pc = "done"
      /\ http.call.reply = "result" /\ http.call.raw.isError = "true"
    => http.call.out = "returned" /\ http.call.val.isError = "true"

\* C28: isConnected of the SimpleMCPClient is true only between a connect()
\* that returned and the next disconnect(): it is false after a connect()
\* that raised and after a disconnect() that returned, and when it is true
\* with no call in flight a connect() has returned since the last
\* disconnect()
C28_Orig ==
    /\ (simple.call.pc = "done" /\ simple.call.op = "connect"
          /\ simple.call.out = "raised") => ~SimpleIsConnected(simple)
    /\ (simple.call.pc = "done" /\ simple.call.op = "disconnect"
          /\ simple.call.out = "returned") => ~SimpleIsConnected(simple)
    /\ (simple.call.op = "idle" /\ SimpleIsConnected(simple)) => simple.live

\* C29: invoke() never raises; it calls graph.invoke() at most twice and
\* reconnect() at most once; once it has settled, it has called reconnect()
\* exactly when the first graph.invoke() failed with an Error whose message
\* contains 'connection', it has run graph.invoke() a second time exactly
\* when that reconnect() succeeded, it has returned the reconnection-failed
\* string when the reconnect or the retry failed, and for any other first
\* error it has returned the error string of that error
AgentSettled == agent.pc = "done"

FirstFailedOnConnection ==
    /\ agent.err # NoThrown
    /\ agent.err.isError
    /\ \E i \in 1..Len(agent.err.msg) : agent.err.msg[i] = "connection"

C29_InvokeRetriesOnce ==
    /\ agent.out # "raised"
    /\ agent.graphCalls <= 2
    /\ agent.reconnects <= 1
    /\ AgentSettled =>
          /\ agent.out = "returned"
          /\ agent.reconnects = (IF FirstFailedOnConnection THEN 1 ELSE 0)
          /\ agent.graphCalls = (IF agent.reconnected THEN 2 ELSE 1)
          /\ agent.reconnected => agent.reconnects = 1
          /\ (agent.reconnects = 1 /\ agent.err2 # NoThrown)
                => agent.val = ReconnectFailedString(agent.err2)
          /\ (agent.reconnects = 1 /\ agent.err2 = NoThrown)
                => agent.val.kind = "content"
          /\ (agent.err # NoThrown /\ ~FirstFailedOnConnection)
                => agent.val = ErrorString(agent.err)
          /\ agent.err = NoThrown => agent.val.kind = "content"

\* an invoke() that reconnected, retried, and whose retry failed
C29_Witness ==
    /\ AgentSettled
    /\ agent.reconnects = 1
    /\ agent.graphCalls = 2
    /\ agent.err2 # NoThrown
    /\ agent.val.kind = "reconnectFailed"

\* C30: the shared MODEL_CONFIG keeps its defaults through every tool call,
\* and get_train_experiment_info reports the defaults the server started
\* with
C30_Orig ==
    /\ config.cfg = MODEL_CONFIG
    /\ (config.call.op = "info" /\ config.call.supported)
          => config.call.params = MODEL_CONFIG[config.call.model_type]

====
